---- MODULE Spec2Model ----
(***************************************************************************)
(* A model of src/window.rs: the WindowBuilder (configuration, build,      *)
(* build_strict), the Window's event iterators and WindowProxy, and the    *)
(* point-to-pixel conversion of get_inner_size_pixels.                     *)
(*                                                                         *)
(* The platform backend (platform::Window, platform::WindowProxy, the      *)
(* platform iterators, platform::MonitorId) is not part of window.rs; the  *)
(* platform_* operators follow the backend contract of the design          *)
(* document: one FIFO event queue per window, drained by both iterators,   *)
(* and a wakeup that gives a suspended wait an event to return with.       *)
(* One thread owns the windows and drives their iterators; any other       *)
(* thread may clone a proxy or call wakeup_event_loop.                     *)
(***************************************************************************)
EXTENDS Integers, Sequences, FiniteSets, TLC

(***************************************************************************)
(* Option<T>                                                               *)
(***************************************************************************)
None == <<>>
Some(v) == <<v>>
IsSome(o) == o # None
Unwrap(o) == o[1]

(***************************************************************************)
(* Input domains of the builder                                            *)
(***************************************************************************)
Dims == {<<800, 600>>, <<1920, 1080>>}
MinMaxDims == {<<640, 480>>}
Titles == {"t"}
Monitors == {"m1", "m2"}
MonitorModes == {<<1920, 1080>>, <<2560, 1440>>}
Callbacks == {"cb"}
CreationErrors == {"OsError", "NotSupported"}
BackendOutcomes ==
    {[tag |-> "Ok", err |-> "-"]} \cup {[tag |-> "Err", err |-> e] : e \in CreationErrors}

VARIABLES
    builder,        \* the WindowBuilder being configured (consumed by build)
    monitorDims,    \* what each monitor's get_dimensions() reports right now
    phase,          \* "config" while the builder exists, "built" after build
    entry,          \* which entry point consumed the builder
    outcome,        \* what the backend constructor answered
    dimsAtBuild,    \* monitorDims as it was when build ran
    backendCalls,   \* the backend calls build made, in order
    result,         \* what build returned
    dimsCalled,     \* Some(args) of the last with_dimensions call, else None
    fsCalled        \* Some(<<monitor, its dimensions then>>) of the last
                    \* with_fullscreen call, else None

bvars == <<builder, monitorDims, phase, entry, outcome, dimsAtBuild,
           backendCalls, result, dimsCalled, fsCalled>>

VARIABLES
    queue,          \* per window: the backend's event queue
    enqueued,       \* per window: every event the backend ever queued, in order
    delivered,      \* per window: every event a next() call returned, in order
    viaWait,        \* per window: some event was returned by the waiting iterator
    blockedOn,      \* the window in whose wait_events().next() the owning
                    \* thread is suspended ("-": it is running)
    lastRet,        \* the last completed next() call: window, iterator, value
                    \* returned, the oldest event then queued (None: no event)
                    \* and the proxy that woke it (0: none)
    proxies,        \* per window: the WindowProxy values obtained from it, the
                    \* one create_window_proxy() made first, then its clones
    wokenBy         \* the proxy of that window whose wakeup_event_loop() ran
                    \* while the owner was suspended (0: none during this wait)

evars == <<queue, enqueued, delivered, viaWait, blockedOn, lastRet, proxies, wokenBy>>

VARIABLES
    innerSize,      \* what the backend's get_inner_size() reports right now
    hidpi,          \* what the backend's hidpi_factor() reports, as <<num, den>>
    pixelsCall      \* the last get_inner_size_pixels() call: what it saw and returned

pvars == <<innerSize, hidpi, pixelsCall>>

vars == <<bvars, evars, pvars>>

(***************************************************************************)
(* WindowBuilder                                                           *)
(***************************************************************************)
DefaultWindowAttributes ==
    [dimensions |-> None, min_dimensions |-> None, max_dimensions |-> None,
     title |-> "default", monitor |-> None, visible |-> TRUE,
     transparent |-> FALSE, decorations |-> TRUE, multitouch |-> FALSE,
     resize_callback |-> None]

DefaultPlatformSpecific == "platform_default"

WindowBuilder_new ==
    [window |-> DefaultWindowAttributes, platform_specific |-> DefaultPlatformSpecific]

\* with_dimensions that writes the wrong field
with_dimensions_WrongField(self, width, height) ==
    [self EXCEPT !.window.min_dimensions = Some(<<width, height>>)]

with_dimensions(self, width, height) ==
    [self EXCEPT !.window.dimensions = Some(<<width, height>>)]

with_min_dimensions(self, width, height) ==
    [self EXCEPT !.window.min_dimensions = Some(<<width, height>>)]

with_max_dimensions(self, width, height) ==
    [self EXCEPT !.window.max_dimensions = Some(<<width, height>>)]

with_title(self, title) == [self EXCEPT !.window.title = title]

with_fullscreen(self, monitor) == [self EXCEPT !.window.monitor = Some(monitor)]

with_visibility(self, visible) == [self EXCEPT !.window.visible = visible]

with_transparency(self, transparent) == [self EXCEPT !.window.transparent = transparent]

with_decorations(self, decorations) == [self EXCEPT !.window.decorations = decorations]

with_multitouch(self) == [self EXCEPT !.window.multitouch = TRUE]

with_window_resize_callback(self, cb) == [self EXCEPT !.window.resize_callback = Some(cb)]

\* MonitorId::get_dimensions: a pass-through to the backend monitor handle
get_dimensions(monitor, mdims) == mdims[monitor]

DefaultDimensions == <<1024, 768>>

\* platform::Window::new on success: the backend window made from the descriptor
PlatformWindow(attrs, pl) ==
    [attrs |-> attrs, platform_specific |-> pl, resize_callback |-> None]

\* platform::Window::set_window_resize_callback
platform_set_window_resize_callback(w, callback) ==
    [w EXCEPT !.resize_callback = callback]

NoResult == [tag |-> "None"]
Ok(w) == [tag |-> "Ok", window |-> w]
Err(e) == [tag |-> "Err", err |-> e]

NewCall(self) == [op |-> "new", arg |-> <<self.window, self.platform_specific>>]
CallbackCall(callback) == [op |-> "set_window_resize_callback", arg |-> <<callback>>]

\* build without the default-dimensions step
build_NoDefault(self, mdims, out) ==
    LET s2 == IF self.window.dimensions = None /\ IsSome(self.window.monitor)
              THEN [self EXCEPT !.window.dimensions =
                        Some(mdims[Unwrap(self.window.monitor)])]
              ELSE self
    IN  IF out.tag = "Err"
        THEN [calls |-> <<NewCall(s2)>>, result |-> Err(out.err)]
        ELSE [calls |-> <<NewCall(s2)>> \o
                        (IF IsSome(s2.window.resize_callback)
                         THEN <<CallbackCall(s2.window.resize_callback)>> ELSE <<>>),
              result |-> Ok([window |-> [PlatformWindow(s2.window, s2.platform_specific)
                                EXCEPT !.resize_callback = s2.window.resize_callback]])]

\* build with the two resolution steps in the wrong order
build_DefaultFirst(self, mdims, out) ==
    LET s2 == IF self.window.dimensions = None
              THEN [self EXCEPT !.window.dimensions = Some(<<1024, 768>>)]
              ELSE self
    IN  IF out.tag = "Err"
        THEN [calls |-> <<NewCall(s2)>>, result |-> Err(out.err)]
        ELSE [calls |-> <<NewCall(s2)>> \o
                        (IF IsSome(s2.window.resize_callback)
                         THEN <<CallbackCall(s2.window.resize_callback)>> ELSE <<>>),
              result |-> Ok([window |-> [PlatformWindow(s2.window, s2.platform_specific)
                                EXCEPT !.resize_callback = s2.window.resize_callback]])]

\* build that tries the backend constructor a second time when it fails
build_Retry(self, mdims, out) ==
    LET s1 == IF self.window.dimensions = None /\ IsSome(self.window.monitor)
              THEN [self EXCEPT !.window.dimensions =
                        Some(mdims[Unwrap(self.window.monitor)])]
              ELSE self
        s2 == IF s1.window.dimensions = None
              THEN [s1 EXCEPT !.window.dimensions = Some(<<1024, 768>>)]
              ELSE s1
    IN  IF out.tag = "Err"
        THEN [calls |-> <<NewCall(s2), NewCall(s2)>>, result |-> Err(out.err)]
        ELSE [calls |-> <<NewCall(s2)>> \o
                        (IF IsSome(s2.window.resize_callback)
                         THEN <<CallbackCall(s2.window.resize_callback)>> ELSE <<>>),
              result |-> Ok([window |-> [PlatformWindow(s2.window, s2.platform_specific)
                                EXCEPT !.resize_callback = s2.window.resize_callback]])]


\* WindowBuilder::build, given what the monitors report and what the backend
\* constructor answers; yields the backend calls made and the value returned.
build(self, mdims, out) ==
    LET s1 == IF self.window.dimensions = None /\ IsSome(self.window.monitor)
              THEN [self EXCEPT !.window.dimensions =
                        Some(get_dimensions(Unwrap(self.window.monitor), mdims))]
              ELSE self
        s2 == IF s1.window.dimensions = None
              THEN [s1 EXCEPT !.window.dimensions = Some(DefaultDimensions)]
              ELSE s1
    IN  IF out.tag = "Err"
        THEN [calls |-> <<NewCall(s2)>>, result |-> Err(out.err)]
        ELSE LET w == PlatformWindow(s2.window, s2.platform_specific)
             IN  IF IsSome(s2.window.resize_callback)
                 THEN [calls |-> <<NewCall(s2), CallbackCall(s2.window.resize_callback)>>,
                       result |-> Ok([window |->
                           platform_set_window_resize_callback(w, s2.window.resize_callback)])]
                 ELSE [calls |-> <<NewCall(s2)>>, result |-> Ok([window |-> w])]

\* build_strict that refuses what a backend may silently downgrade
build_strict_Enforcing(self, mdims, out) ==
    IF self.window.transparent
    THEN [calls |-> <<>>, result |-> [tag |-> "Err", err |-> "NotSupported"]]
    ELSE [calls |-> <<[op |-> "new", arg |-> <<self.window, self.platform_specific>>]>>,
          result |-> [tag |-> "Err", err |-> "NotSupported"]]

\* WindowBuilder::build_strict
build_strict(self, mdims, out) == build(self, mdims, out)

BInit ==
    /\ builder = WindowBuilder_new
    /\ monitorDims \in [Monitors -> MonitorModes]
    /\ phase = "config"
    /\ entry = "-"
    /\ outcome = [tag |-> "-", err |-> "-"]
    /\ dimsAtBuild = monitorDims
    /\ backendCalls = <<>>
    /\ result = NoResult
    /\ dimsCalled = None
    /\ fsCalled = None

Configure(b) ==
    /\ phase = "config"
    /\ builder' = b
    /\ UNCHANGED <<monitorDims, phase, entry, outcome, dimsAtBuild, backendCalls, result>>
    /\ UNCHANGED <<evars, pvars>>

WithDimensions ==
    \E d \in Dims :
        /\ Configure(with_dimensions(builder, d[1], d[2]))
        /\ dimsCalled' = Some(d)
        /\ UNCHANGED fsCalled

WithMinDimensions ==
    \E d \in MinMaxDims :
        /\ Configure(with_min_dimensions(builder, d[1], d[2]))
        /\ UNCHANGED <<dimsCalled, fsCalled>>

WithMaxDimensions ==
    \E d \in MinMaxDims :
        /\ Configure(with_max_dimensions(builder, d[1], d[2]))
        /\ UNCHANGED <<dimsCalled, fsCalled>>

WithTitle ==
    \E t \in Titles :
        /\ Configure(with_title(builder, t))
        /\ UNCHANGED <<dimsCalled, fsCalled>>

WithFullscreen ==
    \E m \in Monitors :
        /\ Configure(with_fullscreen(builder, m))
        /\ fsCalled' = Some(<<m, monitorDims[m]>>)
        /\ UNCHANGED dimsCalled

WithVisibility ==
    \E v \in BOOLEAN :
        /\ Configure(with_visibility(builder, v))
        /\ UNCHANGED <<dimsCalled, fsCalled>>

WithTransparency ==
    \E v \in BOOLEAN :
        /\ Configure(with_transparency(builder, v))
        /\ UNCHANGED <<dimsCalled, fsCalled>>

WithDecorations ==
    \E v \in BOOLEAN :
        /\ Configure(with_decorations(builder, v))
        /\ UNCHANGED <<dimsCalled, fsCalled>>

WithMultitouch ==
    /\ Configure(with_multitouch(builder))
    /\ UNCHANGED <<dimsCalled, fsCalled>>

WithWindowResizeCallback ==
    \E cb \in Callbacks :
        /\ Configure(with_window_resize_callback(builder, cb))
        /\ UNCHANGED <<dimsCalled, fsCalled>>

\* the display configuration changes under the program (a mode switch)
MonitorModeChange ==
    /\ phase = "config"
    /\ \E m \in Monitors, d \in MonitorModes :
        /\ monitorDims[m] # d
        /\ monitorDims' = [monitorDims EXCEPT ![m] = d]
    /\ UNCHANGED <<builder, phase, entry, outcome, dimsAtBuild, backendCalls,
                   result, dimsCalled, fsCalled>>
    /\ UNCHANGED <<evars, pvars>>

Finish(name, r, out) ==
    /\ phase' = "built"
    /\ entry' = name
    /\ outcome' = out
    /\ dimsAtBuild' = monitorDims
    /\ backendCalls' = r.calls
    /\ result' = r.result
    /\ UNCHANGED <<builder, monitorDims, dimsCalled, fsCalled>>
    /\ UNCHANGED <<evars, pvars>>

Build ==
    /\ phase = "config"
    /\ \E out \in BackendOutcomes : Finish("build", build(builder, monitorDims, out), out)

BuildStrict ==
    /\ phase = "config"
    /\ \E out \in BackendOutcomes :
        Finish("build_strict", build_strict(builder, monitorDims, out), out)

BNext ==
    \/ WithDimensions
    \/ WithMinDimensions
    \/ WithMaxDimensions
    \/ WithTitle
    \/ WithFullscreen
    \/ WithVisibility
    \/ WithTransparency
    \/ WithDecorations
    \/ WithMultitouch
    \/ WithWindowResizeCallback
    \/ MonitorModeChange
    \/ Build
    \/ BuildStrict

(***************************************************************************)
(* Event iterators and WindowProxy                                         *)
(***************************************************************************)
Windows == {"w1", "w2"}
MaxEvents == 3      \* events the backend queues in all, over every window
MaxProxies == 2     \* WindowProxy values obtained from one window

InputEvent(n) == <<"Input", n>>
Awakened(n) == <<"Awakened", n>>

\* the backend's non-blocking iterator: takes the oldest queued event, if any
platform_poll_next(q) ==
    IF q = <<>> THEN [value |-> None, queue |-> q]
                ELSE [value |-> Some(Head(q)), queue |-> Tail(q)]

\* the backend's blocking iterator stays suspended until an event is available
platform_wait_ready(q) == q # <<>>

\* the backend's blocking iterator once it resumes: the oldest queued event
platform_wait_next(q) == [value |-> Some(Head(q)), queue |-> Tail(q)]

\* the backend queues an input event on a window
platform_enqueue(qs, w, e) == [qs EXCEPT ![w] = Append(@, e)]

\* the backend proxy of a window shares that window's wakeup target
platform_create_window_proxy(w) == [target |-> w]

\* a cloned backend proxy shares the wakeup target, it does not duplicate it
platform_proxy_clone(bp) == bp

\* the backend's wakeup: the target's suspended wait is given an event to
\* return with; a proxy with no live target wakes nothing
platform_wakeup_event_loop(bp, qs, e) ==
    IF bp.target \in Windows THEN platform_enqueue(qs, bp.target, e) ELSE qs

\* a polling next() that pulls the backend iterator twice
PollEventsIterator_next_SkipOne(q) ==
    LET first == platform_poll_next(q) IN platform_poll_next(first.queue)

\* a polling next() that never yields
PollEventsIterator_next_AlwaysNone(q) == [value |-> None, queue |-> q]

PollEventsIterator_next(q) == platform_poll_next(q)

\* a waiting next() that filters the wakeup notification out
WaitEventsIterator_next_DropAwakened(q) ==
    IF Head(q)[1] = "Awakened" THEN [value |-> None, queue |-> Tail(q)]
                               ELSE [value |-> Some(Head(q)), queue |-> Tail(q)]

WaitEventsIterator_next(q) == platform_wait_next(q)

create_window_proxy(w) == [proxy |-> platform_create_window_proxy(w)]

WindowProxy_clone(self) == [proxy |-> platform_proxy_clone(self.proxy)]

\* a wakeup_event_loop() that does not reach the backend
wakeup_event_loop_Noop(self, qs, e) == qs

wakeup_event_loop(self, qs, e) == platform_wakeup_event_loop(self.proxy, qs, e)

RECURSIVE SumLen(_, _)
SumLen(f, S) ==
    IF S = {} THEN 0
    ELSE LET w == CHOOSE x \in S : TRUE IN Len(f[w]) + SumLen(f, S \ {w})

TotalEnqueued == SumLen(enqueued, Windows)

NoCall == [w |-> "-", iter |-> "-", value |-> None, found |-> None, woken |-> 0]

Oldest(q) == IF q = <<>> THEN None ELSE Some(Head(q))

EInit ==
    /\ queue = [w \in Windows |-> <<>>]
    /\ enqueued = [w \in Windows |-> <<>>]
    /\ delivered = [w \in Windows |-> <<>>]
    /\ viaWait = [w \in Windows |-> FALSE]
    /\ blockedOn = "-"
    /\ lastRet = NoCall
    /\ proxies = [w \in Windows |-> <<>>]
    /\ wokenBy = 0

\* the record of a completed next() call
Returned(w, iter, r) ==
    /\ queue' = [queue EXCEPT ![w] = r.queue]
    /\ delivered' = [delivered EXCEPT ![w] =
            IF IsSome(r.value) THEN Append(@, Unwrap(r.value)) ELSE @]
    /\ viaWait' = [viaWait EXCEPT ![w] = @ \/ (iter = "wait" /\ IsSome(r.value))]
    /\ lastRet' = [w |-> w, iter |-> iter, value |-> r.value, found |-> Oldest(queue[w]),
                   woken |-> IF iter = "wait" THEN wokenBy ELSE 0]

\* the native event source queues an input event
BackendEnqueue(w) ==
    /\ TotalEnqueued < MaxEvents
    /\ LET e == InputEvent(Len(enqueued[w]) + 1)
       IN  /\ queue' = platform_enqueue(queue, w, e)
           /\ enqueued' = [enqueued EXCEPT ![w] = Append(@, e)]
    /\ UNCHANGED <<delivered, viaWait, blockedOn, lastRet, proxies, wokenBy>>
    /\ UNCHANGED <<bvars, pvars>>

\* window.poll_events().next() on the owning thread
PollNext(w) ==
    /\ blockedOn = "-"
    /\ Returned(w, "poll", PollEventsIterator_next(queue[w]))
    /\ UNCHANGED <<enqueued, blockedOn, proxies, wokenBy>>
    /\ UNCHANGED <<bvars, pvars>>

\* window.wait_events().next() is entered on the owning thread
WaitNextCall(w) ==
    /\ blockedOn = "-"
    /\ blockedOn' = w
    /\ wokenBy' = 0
    /\ UNCHANGED <<queue, enqueued, delivered, viaWait, lastRet, proxies>>
    /\ UNCHANGED <<bvars, pvars>>

\* window.wait_events().next() resumes and returns
WaitNextReturn(w) ==
    /\ blockedOn = w
    /\ platform_wait_ready(queue[w])
    /\ Returned(w, "wait", WaitEventsIterator_next(queue[w]))
    /\ blockedOn' = "-"
    /\ wokenBy' = 0
    /\ UNCHANGED <<enqueued, proxies>>
    /\ UNCHANGED <<bvars, pvars>>

\* window.create_window_proxy() on the owning thread
CreateWindowProxy(w) ==
    /\ blockedOn = "-"
    /\ proxies[w] = <<>>
    /\ proxies' = [proxies EXCEPT ![w] = <<create_window_proxy(w)>>]
    /\ UNCHANGED <<queue, enqueued, delivered, viaWait, blockedOn, lastRet, wokenBy>>
    /\ UNCHANGED <<bvars, pvars>>

\* proxy.clone() on any thread, proxy being the i-th obtained from w
CloneProxy(w, i) ==
    /\ Len(proxies[w]) < MaxProxies
    /\ proxies' = [proxies EXCEPT ![w] = Append(@, WindowProxy_clone(proxies[w][i]))]
    /\ UNCHANGED <<queue, enqueued, delivered, viaWait, blockedOn, lastRet, wokenBy>>
    /\ UNCHANGED <<bvars, pvars>>

\* proxy.wakeup_event_loop() on any thread but the owner's, proxy being the
\* i-th obtained from w
WakeupEventLoop(w, i) ==
    LET e == Awakened(Len(enqueued[w]) + 1)
    IN  /\ TotalEnqueued < MaxEvents
        /\ queue' = wakeup_event_loop(proxies[w][i], queue, e)
        /\ enqueued' = [x \in Windows |->
                            IF queue'[x] # queue[x] THEN Append(enqueued[x], e)
                            ELSE enqueued[x]]
        /\ wokenBy' = IF blockedOn = w THEN i ELSE wokenBy
        /\ UNCHANGED <<delivered, viaWait, blockedOn, lastRet, proxies>>
        /\ UNCHANGED <<bvars, pvars>>

ENext ==
    \/ \E w \in Windows : BackendEnqueue(w)
    \/ \E w \in Windows : PollNext(w)
    \/ \E w \in Windows : WaitNextCall(w)
    \/ \E w \in Windows : WaitNextReturn(w)
    \/ \E w \in Windows : CreateWindowProxy(w)
    \/ \E w \in Windows : \E i \in 1..Len(proxies[w]) : CloneProxy(w, i)
    \/ \E w \in Windows : \E i \in 1..Len(proxies[w]) : WakeupEventLoop(w, i)

(***************************************************************************)
(* Window::get_inner_size_pixels                                           *)
(***************************************************************************)
MaxPoints == 3      \* the largest client-area side, in points
HidpiFactors == {<<1, 2>>, <<1, 1>>, <<5, 4>>, <<3, 2>>, <<2, 1>>}

\* (x as f32 * hidpi) as u32, on operands and products f32 holds exactly:
\* the cast to u32 drops the fraction
ScaleToPixels(x, h) == (x * h[1]) \div h[2]

\* the product rounded to the nearest integer, halves away from zero
ScaleRounded(x, h) == (2 * x * h[1] + h[2]) \div (2 * h[2])

\* get_inner_size_pixels that rounds to nearest
get_inner_size_pixels_Rounding(size, h) ==
    IF size = None THEN None
    ELSE Some(<<ScaleRounded(Unwrap(size)[1], h), ScaleRounded(Unwrap(size)[2], h)>>)

get_inner_size_pixels(size, h) ==
    IF size = None THEN None
    ELSE Some(<<ScaleToPixels(Unwrap(size)[1], h), ScaleToPixels(Unwrap(size)[2], h)>>)

NoPixelsCall == [called |-> FALSE, size |-> None, hidpi |-> <<1, 1>>, ret |-> None]

PInit ==
    /\ innerSize = Some(<<1, 1>>)
    /\ hidpi = <<1, 1>>
    /\ pixelsCall = NoPixelsCall

\* the window is resized
Resize ==
    /\ IsSome(innerSize)
    /\ \E x \in 0..MaxPoints, y \in 0..MaxPoints :
        /\ innerSize # Some(<<x, y>>)
        /\ innerSize' = Some(<<x, y>>)
    /\ UNCHANGED <<hidpi, pixelsCall>>
    /\ UNCHANGED <<bvars, evars>>

\* the native window goes away
WindowClosed ==
    /\ IsSome(innerSize)
    /\ innerSize' = None
    /\ UNCHANGED <<hidpi, pixelsCall>>
    /\ UNCHANGED <<bvars, evars>>

\* the window moves to a display of another density
HidpiChange ==
    /\ \E h \in HidpiFactors :
        /\ h # hidpi
        /\ hidpi' = h
    /\ UNCHANGED <<innerSize, pixelsCall>>
    /\ UNCHANGED <<bvars, evars>>

\* window.get_inner_size_pixels()
GetInnerSizePixels ==
    /\ pixelsCall' = [called |-> TRUE, size |-> innerSize, hidpi |-> hidpi,
                      ret |-> get_inner_size_pixels(innerSize, hidpi)]
    /\ UNCHANGED <<innerSize, hidpi>>
    /\ UNCHANGED <<bvars, evars>>

PNext ==
    \/ Resize
    \/ WindowClosed
    \/ HidpiChange
    \/ GetInnerSizePixels

(***************************************************************************)
(* Specifications                                                          *)
(***************************************************************************)
\* a fresh builder, a fresh window, any display configuration
Init == BInit /\ EInit /\ PInit

\* the same with the display configuration fixed
InitLive ==
    /\ Init
    /\ monitorDims = [m \in Monitors |-> <<1920, 1080>>]

SpecBuild == Init /\ [][BNext]_vars

SpecEvents == InitLive /\ [][ENext]_vars

\* a suspended owner whose backend iterator has an event to return does return
SpecEventsFair ==
    SpecEvents /\ \A w \in Windows : WF_vars(WaitNextReturn(w))

SpecPixels == InitLive /\ [][PNext]_vars
(***************************************************************************)
(* Properties of the builder                                               *)
(***************************************************************************)
Built == phase = "built"
PassedDimensions == backendCalls[1].arg[1].dimensions

\* C1: when neither with_dimensions nor with_fullscreen was called, build
\* invokes the backend constructor with dimensions exactly Some((1024, 768)),
\* and the backend constructor is never invoked with dimensions = None.
C1_DefaultDimensions ==
    Built =>
        /\ backendCalls[1].op = "new"
        /\ PassedDimensions # None
        /\ (dimsCalled = None /\ fsCalled = None) => PassedDimensions = Some(<<1024, 768>>)

C1_Witness ==
    /\ Built
    /\ dimsCalled = None /\ fsCalled = None
    /\ builder.window.title = "t" /\ builder.window.multitouch
    /\ IsSome(builder.window.min_dimensions)
    /\ PassedDimensions = Some(<<1024, 768>>)

\* C2: when with_fullscreen(monitor) was called and with_dimensions never was,
\* build invokes the backend with the dimensions that monitor reports at the
\* time of build, not the 1024x768 fallback.
C2_FullscreenDimensions ==
    (Built /\ dimsCalled = None /\ IsSome(fsCalled)) =>
        /\ PassedDimensions = Some(dimsAtBuild[Unwrap(fsCalled)[1]])
        /\ PassedDimensions # Some(<<1024, 768>>)

\* the monitor changed mode between with_fullscreen and build
C2_Witness ==
    /\ Built
    /\ dimsCalled = None /\ IsSome(fsCalled)
    /\ dimsAtBuild[Unwrap(fsCalled)[1]] # Unwrap(fsCalled)[2]
    /\ PassedDimensions = Some(dimsAtBuild[Unwrap(fsCalled)[1]])

\* C3: when with_dimensions(w, h) was called, build invokes the backend with
\* the (w, h) of the last with_dimensions call, whatever else was called;
\* neither the monitor's dimensions nor the default replaces it.
C3_ExplicitDimensions ==
    (Built /\ IsSome(dimsCalled)) => PassedDimensions = Some(Unwrap(dimsCalled))

C3_Witness ==
    /\ Built
    /\ IsSome(dimsCalled) /\ IsSome(fsCalled)
    /\ dimsAtBuild[Unwrap(fsCalled)[1]] # Unwrap(dimsCalled)
    /\ PassedDimensions = Some(Unwrap(dimsCalled))

\* C8: when the backend constructor fails, build returns Err with the
\* backend's CreationError unchanged, produces no Window, does not register
\* the resize callback and does not call the constructor again.
C8_FailureAborts ==
    (Built /\ outcome.tag = "Err") =>
        /\ result = Err(outcome.err)
        /\ Len(backendCalls) = 1
        /\ backendCalls[1].op = "new"

C8_Witness ==
    /\ Built
    /\ outcome = [tag |-> "Err", err |-> "NotSupported"]
    /\ IsSome(builder.window.resize_callback)
    /\ result = Err("NotSupported")

Range(q) == {q[k] : k \in 1..Len(q)}

C5_WakeupReturns ==
    /\ [](\A w \in Windows : \A i \in 1..Len(proxies[w]) : proxies[w][i].proxy.target = w)
    /\ \A w \in Windows :
        (blockedOn = w /\ wokenBy # 0) ~> (blockedOn = "-")

\* the owner of a window is blocked and a clone's wakeup has been called
C5_Witness ==
    \E w \in Windows :
        /\ blockedOn = w
        /\ wokenBy > 1
        /\ queue[w] = <<Awakened(1)>>

\* C6: on each window the events returned by poll_events().next() and
\* wait_events().next() together are a prefix of the backend's enqueue
\* order: none twice, none skipped, none out of order.
C6_DeliveredIsPrefix ==
    \A w \in Windows :
        /\ Len(delivered[w]) <= Len(enqueued[w])
        /\ \A k \in 1..Len(delivered[w]) : delivered[w][k] = enqueued[w][k]

\* a window that delivered by wait and then by poll, with more still queued
C6_Witness ==
    \E w \in Windows :
        /\ Len(delivered[w]) = 2
        /\ viaWait[w]
        /\ lastRet = [w |-> w, iter |-> "poll", value |-> Some(enqueued[w][2]),
                      found |-> Some(enqueued[w][2]), woken |-> 0]
        /\ queue[w] # <<>>

\* C7: the polling iterator's next() never blocks: it can always complete,
\* returning Some(oldest queued event) when the queue is non-empty and None
\* when it is empty.
C7_PollNeverBlocks ==
    /\ lastRet.iter = "poll" => lastRet.value = lastRet.found
    /\ \A w \in Windows : blockedOn = "-" => ENABLED PollNext(w)

\* a poll that found the queue empty, after one that found an event
C7_Witness ==
    /\ lastRet.iter = "poll"
    /\ lastRet.value = None
    /\ delivered[lastRet.w] # <<>>
    /\ ~viaWait[lastRet.w]

(***************************************************************************)
(* Properties of get_inner_size_pixels                                     *)
(***************************************************************************)
SizeSeen == Unwrap(pixelsCall.size)
PixelsRet == Unwrap(pixelsCall.ret)

\* C9 as stated: the result is (round(px * h), round(py * h)), and it is
\* None exactly when get_inner_size() is None.
C9_Rounds ==
    pixelsCall.called =>
        /\ pixelsCall.ret = None <=> pixelsCall.size = None
        /\ IsSome(pixelsCall.size) =>
            pixelsCall.ret = Some(<<ScaleRounded(SizeSeen[1], pixelsCall.hidpi),
                                    ScaleRounded(SizeSeen[2], pixelsCall.hidpi)>>)

\* C9: for a get_inner_size() result (px, py) and hidpi_factor() h,
\* get_inner_size_pixels() returns each product px * h, py * h with its
\* fraction dropped (the largest integer not above it), and it returns None
\* exactly when get_inner_size() returns None.
C9_Truncates ==
    pixelsCall.called =>
        /\ pixelsCall.ret = None <=> pixelsCall.size = None
        /\ IsSome(pixelsCall.size) =>
            /\ IsSome(pixelsCall.ret)
            /\ \A k \in 1..2 :
                /\ PixelsRet[k] * pixelsCall.hidpi[2] <= SizeSeen[k] * pixelsCall.hidpi[1]
                /\ SizeSeen[k] * pixelsCall.hidpi[1] < (PixelsRet[k] + 1) * pixelsCall.hidpi[2]

\* 3 points at a factor of 1.5: 4.5 becomes 4, not 5
C9_Witness ==
    /\ pixelsCall.called
    /\ pixelsCall.size = Some(<<3, 1>>)
    /\ pixelsCall.hidpi = <<3, 2>>
    /\ pixelsCall.ret = Some(<<4, 1>>)
====
